---- MODULE Spec2Model ----
(***************************************************************************)
(* Model of the mcp-spatialtools server                                    *)
(* (src/servers/mcp-spatialtools/src/mcp_spatialtools/server.py).          *)
(*                                                                         *)
(* The tools are coroutines without any await in their bodies, so each     *)
(* tool call runs to completion on the event loop: one action per call.    *)
(*                                                                         *)
(* A CSV file is a header plus rows of text fields; a DataFrame is the     *)
(* parsed form (columns, a dtype per column, rows of cells).  Numbers are  *)
(* rationals n/d with d > 0 in lowest terms.                               *)
(***************************************************************************)
EXTENDS Integers, Sequences, FiniteSets, TLC

VARIABLES DRY_RUN, fs, dirs, io, result, call, ncalls

vars == <<DRY_RUN, fs, dirs, io, result, call, ncalls>>

(* ------------------------------ bounds --------------------------------- *)

MaxRows == 2

MaxCalls == 2

(* ---------------------------- generic helpers -------------------------- *)

Range(s) == {s[i] : i \in 1..Len(s)}

Abs(x) == IF x < 0 THEN -x ELSE x

RECURSIVE Gcd(_, _)
Gcd(a, b) == IF b = 0 THEN a ELSE Gcd(b, a % b)

SeqsUpTo(S, n) == UNION {[1..k -> S] : k \in 0..n}

(* ------------------------- CSV fields and cells ------------------------ *)

\* text fields of a CSV file
FInt(n) == [k |-> "int", fk |-> "int", n |-> n, d |-> 1, s |-> ""]

FFloat(n, d) == [k |-> "float", fk |-> "float", n |-> n, d |-> d, s |-> ""]

FEmpty == [k |-> "empty", fk |-> "empty", n |-> 0, d |-> 1, s |-> ""]

FText(s) == [k |-> "text", fk |-> "text", n |-> 0, d |-> 1, s |-> s]

\* cells of a DataFrame: a number (int or float), NaN, or a Python str
\* (fk remembers how the value prints: "int", "float" or the text kind)
NaN == [k |-> "nan", fk |-> "float", n |-> 0, d |-> 1, s |-> ""]

Num(fk, n, d) ==
  LET g == Gcd(Abs(n), d)
  IN [k |-> "num", fk |-> fk, n |-> n \div g, d |-> d \div g, s |-> ""]

Str(fld) == [k |-> "str", fk |-> fld.k, n |-> fld.n, d |-> fld.d, s |-> fld.s]

(* ------------------------------- paths --------------------------------- *)

\* a path is directory / stem . suffix ; the stem is a sequence of tokens
\* joined by "_"
MkPath(dir, stem, suffix) == [dir |-> dir, stem |-> stem, suffix |-> suffix]

EnsuredDirs == <<"DATA_DIR", "CACHE_DIR", "DATA_DIR/raw", "DATA_DIR/filtered", "DATA_DIR/aligned">>

Ev(op, target) == [op |-> op, target |-> target]

\* _ensure_directories(): five mkdir calls
EnsureDirsIO == [i \in 1..Len(EnsuredDirs) |-> Ev("mkdir", EnsuredDirs[i])]

Exists(path) == path \in DOMAIN fs

(* ---------------------------- pandas: read_csv ------------------------- *)

ColDtype(file, c) ==
  IF Len(file.rows) = 0 THEN "object"
  ELSE IF \A i \in 1..Len(file.rows) : file.rows[i][c].k = "int" THEN "int64"
  ELSE IF \A i \in 1..Len(file.rows) : file.rows[i][c].k \in {"int", "float", "empty"} THEN "float64"
  ELSE "object"

ParseField(dtype, fld) ==
  IF fld.k = "empty" THEN NaN
  ELSE IF dtype = "int64" THEN Num("int", fld.n, fld.d)
  ELSE IF dtype = "float64" THEN Num("float", fld.n, fld.d)
  ELSE Str(fld)

read_csv(file) ==
  LET cols == Range(file.header)
      dt == [c \in cols |-> ColDtype(file, c)]
  IN [columns |-> file.header,
      dtype |-> dt,
      rows |-> [i \in 1..Len(file.rows) |->
                  [c \in cols |-> ParseField(dt[c], file.rows[i][c])]]]

(* ----------------------------- pandas: to_csv -------------------------- *)

FormatCell(cell) ==
  IF cell.k = "nan" THEN FEmpty
  ELSE IF cell.k = "str" THEN [k |-> cell.fk, fk |-> cell.fk, n |-> cell.n, d |-> cell.d, s |-> cell.s]
  ELSE IF cell.fk = "int" THEN FInt(cell.n)
  ELSE FFloat(cell.n, cell.d)

\* to_csv with the row index written as a first column (index=False left out)
to_csvWithIndex(df) ==
  [header |-> <<"index">> \o df.columns,
   rows |-> [i \in 1..Len(df.rows) |->
               [c \in Range(df.columns) \cup {"index"} |->
                  IF c = "index" THEN FInt(i - 1) ELSE FormatCell(df.rows[i][c])]]]

to_csv(df) ==
  [header |-> df.columns,
   rows |-> [i \in 1..Len(df.rows) |->
               [c \in Range(df.columns) |-> FormatCell(df.rows[i][c])]]]

(* ------------------------- filter_quality: masks ----------------------- *)

CellGT(cell, thr) == cell.k = "num" /\ cell.n > thr * cell.d

\* cell >= thr / cell <= thr on a numeric cell; NaN compares False
CellGE(cell, thr) == cell.k = "num" /\ cell.n >= thr * cell.d

CellLE(cell, thr) == cell.k = "num" /\ cell.n <= thr * cell.d

\* data[data.get(col, 0) <cmp> thr].copy():
\*   column absent    -> data.get gives 0, the mask is a bool, data[bool] is a KeyError
\*   a str in the column -> comparing str with a number is a TypeError
MaskSelect(df, col, thr, cmp) ==
  IF col \notin Range(df.columns) THEN [err |-> "KeyError", df |-> df]
  ELSE IF \E i \in 1..Len(df.rows) : df.rows[i][col].k = "str"
       THEN [err |-> "TypeError", df |-> df]
  ELSE [err |-> "",
        df |-> [df EXCEPT !.rows =
                  SelectSeq(df.rows,
                            LAMBDA r : IF cmp = "ge" THEN CellGE(r[col], thr)
                                                    ELSE CellLE(r[col], thr))]]

FilterReads(data, min_reads) == MaskSelect(data, "n_reads", min_reads, "ge")

FilterGenes(data_filtered, min_genes) == MaskSelect(data_filtered, "n_genes", min_genes, "ge")

FilterMt(data_filtered, max_mt_percent) == MaskSelect(data_filtered, "mt_percent", max_mt_percent, "le")

\* the three successive masks of the try block
ApplyFilters(data, min_reads, min_genes, max_mt_percent) ==
  LET s1 == FilterReads(data, min_reads)
      s2 == FilterGenes(s1.df, min_genes)
      s3 == FilterMt(s2.df, max_mt_percent)
  IN IF s1.err # "" THEN s1
     ELSE IF s2.err # "" THEN s2
     ELSE s3

(* ------------------------ filter_quality: statistics ------------------- *)

\* the fraction n/d in lowest terms; d = 0 marks a division by zero / NaN
Rat(n, d) == IF d = 0 THEN [n |-> 0, d |-> 0] ELSE LET g == Gcd(Abs(n), d) IN [n |-> n \div g, d |-> d \div g]

RatLE(a, b) == a.n * b.d <= b.n * a.d

RECURSIVE SumNum(_, _), SumDen(_, _)
\* sum of the non-NaN cells of a column as a fraction SumNum/SumDen
SumDen(rows, c) ==
  IF rows = <<>> THEN 1
  ELSE (IF Head(rows)[c].k = "num" THEN Head(rows)[c].d ELSE 1) * SumDen(Tail(rows), c)
SumNum(rows, c) ==
  IF rows = <<>> THEN 0
  ELSE LET h == Head(rows)[c]
           rest == SumDen(Tail(rows), c)
       IN IF h.k = "num" THEN h.n * rest + SumNum(Tail(rows), c) * h.d
          ELSE SumNum(Tail(rows), c)

CountNum(rows, c) == Cardinality({i \in 1..Len(rows) : rows[i][c].k = "num"})

\* Series.mean(): skips NaN
ColMean(rows, c) == Rat(SumNum(rows, c), SumDen(rows, c) * CountNum(rows, c))

\* Series.max(): skips NaN
ColMax(rows, c) ==
  LET idx == {i \in 1..Len(rows) : rows[i][c].k = "num"}
      m == CHOOSE i \in idx : \A j \in idx : rows[j][c].n * rows[i][c].d <= rows[i][c].n * rows[j][c].d
  IN Rat(rows[m][c].n, rows[m][c].d)

\* Series.median(): skips NaN; the middle value, or the mean of the two
\* middle values
ColMedian(rows, c) ==
  LET idx == {i \in 1..Len(rows) : rows[i][c].k = "num"}
      cnt == Cardinality(idx)
      Less(i, j) == \/ rows[i][c].n * rows[j][c].d < rows[j][c].n * rows[i][c].d
                    \/ /\ rows[i][c].n * rows[j][c].d = rows[j][c].n * rows[i][c].d
                       /\ i < j
      Rank(i) == Cardinality({j \in idx : Less(j, i)}) + 1
      At(r) == LET i == CHOOSE i \in idx : Rank(i) = r IN rows[i][c]
  IN IF cnt % 2 = 1 THEN Rat(At((cnt + 1) \div 2).n, At((cnt + 1) \div 2).d)
     ELSE LET a == At(cnt \div 2)
              b == At(cnt \div 2 + 1)
          IN Rat(a.n * b.d + b.n * a.d, 2 * a.d * b.d)

\* int(x): truncation toward zero (x >= 0 here)
IntOf(r) == r.n \div r.d

Zero == [n |-> 0, d |-> 1]

FilteringRateNoGuard(barcodes_after, barcodes_before) == Rat(barcodes_after, barcodes_before)

FilteringRate(barcodes_after, barcodes_before) ==
  IF barcodes_before > 0 THEN Rat(barcodes_after, barcodes_before) ELSE Zero

(* ----------------------------- filter_quality -------------------------- *)

FilterOutputPath(input_path, output_dir) ==
  MkPath(output_dir, Append(input_path.stem, "filtered"), "csv")

Err(exc, msg, cause) == [status |-> "error", exc |-> exc, msg |-> msg, cause |-> cause]

FilterDryRunResult(output_path) ==
  [status |-> "ok", mode |-> "dry_run", output_file |-> output_path,
   barcodes_before |-> 50000, barcodes_after |-> 42500, genes_detected |-> 15000,
   mean_reads_per_barcode |-> [n |-> 2500, d |-> 1],
   median_genes_per_barcode |-> [n |-> 850, d |-> 1],
   mean_mt_percent |-> [n |-> 26, d |-> 5],
   filtering_rate |-> [n |-> 17, d |-> 20]]

FilterRealResult(output_path, data, data_filtered) ==
  LET nonempty == Len(data_filtered.rows) > 0
  IN [status |-> "ok", mode |-> "real", output_file |-> output_path,
      barcodes_before |-> Len(data.rows),
      barcodes_after |-> Len(data_filtered.rows),
      genes_detected |-> IF nonempty THEN IntOf(ColMax(data_filtered.rows, "n_genes")) ELSE 0,
      mean_reads_per_barcode |-> IF nonempty THEN ColMean(data_filtered.rows, "n_reads") ELSE Zero,
      median_genes_per_barcode |-> IF nonempty THEN ColMedian(data_filtered.rows, "n_genes") ELSE Zero,
      mean_mt_percent |-> IF nonempty THEN ColMean(data_filtered.rows, "mt_percent") ELSE Zero,
      filtering_rate |-> FilteringRate(Len(data_filtered.rows), Len(data.rows))]

filter_quality(input_file, output_dir, min_reads, min_genes, max_mt_percent) ==
  LET output_path == FilterOutputPath(input_file, output_dir)
      io1 == EnsureDirsIO \o <<Ev("exists", input_file)>>
      io2 == io1 \o <<Ev("mkdir", output_dir)>>
      io3 == io2 \o <<Ev("read", input_file)>>
      data == read_csv(fs[input_file])
      f == ApplyFilters(data, min_reads, min_genes, max_mt_percent)
  IN /\ ncalls < MaxCalls
     /\ ncalls' = ncalls + 1
     /\ call' = [tool |-> "filter_quality", input_file |-> input_file, output_dir |-> output_dir,
                 min_reads |-> min_reads, min_genes |-> min_genes, max_mt_percent |-> max_mt_percent]
     /\ UNCHANGED DRY_RUN
     /\ IF ~Exists(input_file)
        THEN /\ result' = Err("IOError", "Input file not found", "")
             /\ io' = io1
             /\ dirs' = dirs \cup Range(EnsuredDirs)
             /\ UNCHANGED fs
        ELSE IF min_reads < 0 \/ min_genes < 0 \/ max_mt_percent < 0 \/ max_mt_percent > 100
        THEN /\ result' = Err("ValueError", "Invalid QC parameters", "")
             /\ io' = io1
             /\ dirs' = dirs \cup Range(EnsuredDirs)
             /\ UNCHANGED fs
        ELSE IF DRY_RUN
        THEN /\ result' = FilterDryRunResult(output_path)
             /\ io' = io2
             /\ dirs' = dirs \cup Range(EnsuredDirs) \cup {output_dir}
             /\ UNCHANGED fs
        ELSE IF input_file.suffix # "csv"
        THEN /\ result' = Err("IOError", "Failed to filter quality", "ValueError")
             /\ io' = io2
             /\ dirs' = dirs \cup Range(EnsuredDirs) \cup {output_dir}
             /\ UNCHANGED fs
        ELSE IF fs[input_file].header = <<>>
        THEN \* pd.read_csv of a file without a header line: EmptyDataError
             /\ result' = Err("IOError", "Failed to filter quality", "EmptyDataError")
             /\ io' = io3
             /\ dirs' = dirs \cup Range(EnsuredDirs) \cup {output_dir}
             /\ UNCHANGED fs
        ELSE IF f.err # ""
        THEN /\ result' = Err("IOError", "Failed to filter quality", f.err)
             /\ io' = io3
             /\ dirs' = dirs \cup Range(EnsuredDirs) \cup {output_dir}
             /\ UNCHANGED fs
        ELSE /\ result' = FilterRealResult(output_path, data, f.df)
             /\ io' = io3 \o <<Ev("write", output_path)>>
             /\ dirs' = dirs \cup Range(EnsuredDirs) \cup {output_dir}
             /\ fs' = (output_path :> to_csv(f.df)) @@ fs

(* ------------------------- filter_quality: inputs ---------------------- *)

NoResult == [status |-> "none"]

NoCall == [tool |-> "none"]

InputCsv == MkPath("in", <<"a">>, "csv")

InputH5 == MkPath("in", <<"c">>, "h5")

MissingCsv == MkPath("in", <<"missing">>, "csv")

ReadsFields == {FInt(1), FInt(3), FEmpty}

GenesFields == {FInt(1), FInt(3)}

MtFields == {FInt(2), FInt(4), FText("high")}

BarcodeOf(i) == FText(<<"AAAC", "CCGT", "GGTA", "TTAG">>[i])

FullHeader == <<"barcode", "n_reads", "n_genes", "mt_percent">>

NoGenesHeader == <<"barcode", "n_reads", "mt_percent">>

FilterHeaders == {FullHeader, NoGenesHeader}

FieldsOf(c) ==
  IF c = "n_reads" THEN ReadsFields
  ELSE IF c = "n_genes" THEN GenesFields
  ELSE MtFields

\* a barcode of good quality
GoodField(c) ==
  IF c = "n_reads" THEN FInt(3)
  ELSE IF c = "n_genes" THEN FInt(3)
  ELSE FInt(2)

\* the CSV files of at most MaxRows rows over a header; row i carries the
\* i-th barcode, and at most one of its quality fields is not a good one
FilterFiles(header) ==
  LET qcols == Range(header) \ {"barcode"}
      QRows == {q \in [qcols -> ReadsFields \cup GenesFields \cup MtFields] :
                  /\ \A c \in qcols : q[c] \in FieldsOf(c)
                  /\ Cardinality({c \in qcols : q[c] # GoodField(c)}) <= 1}
  IN {[header |-> header,
       rows |-> [i \in 1..Len(qs) |-> ("barcode" :> BarcodeOf(i)) @@ qs[i]]] :
        qs \in SeqsUpTo(QRows, MaxRows)}

H5File == [header |-> FullHeader, rows |-> <<>>]

MinReadsArgs == {-1, 1, 3}

MinGenesArgs == {-1, 3}

MaxMtArgs == {-1, 2, 101}

OutputDirs == {"out"}

InitFilter ==
  /\ DRY_RUN \in BOOLEAN
  /\ \E h \in FilterHeaders : \E file \in FilterFiles(h) :
       fs = (InputCsv :> file) @@ (InputH5 :> H5File)
  /\ dirs = {"in"}
  /\ io = <<>>
  /\ result = NoResult
  /\ call = NoCall
  /\ ncalls = 0

FilterQuality ==
  \E input_file \in DOMAIN fs \cup {MissingCsv}, output_dir \in OutputDirs,
     min_reads \in MinReadsArgs, min_genes \in MinGenesArgs, max_mt_percent \in MaxMtArgs :
    filter_quality(input_file, output_dir, min_reads, min_genes, max_mt_percent)

NextFilter == FilterQuality

SpecFilter == InitFilter /\ [][NextFilter]_vars

(* --------------------------- pandas: pd.concat ------------------------- *)

RECURSIVE AppendNew(_, _)
\* cols followed by the entries of more that are not yet in it
AppendNew(cols, more) ==
  IF more = <<>> THEN cols
  ELSE AppendNew(IF Head(more) \in Range(cols) THEN cols ELSE Append(cols, Head(more)), Tail(more))

RECURSIVE ConcatColumns(_)
\* union of the frames' columns, in order of first appearance
ConcatColumns(frames) ==
  IF frames = <<>> THEN <<>>
  ELSE AppendNew(Head(frames).columns, ConcatColumns(Tail(frames)))

RECURSIVE ConcatRows(_, _)
\* the frames' rows one frame after the other; a column a frame lacks is NaN
ConcatRows(frames, cols) ==
  IF frames = <<>> THEN <<>>
  ELSE LET f == Head(frames)
       IN [i \in 1..Len(f.rows) |->
             [c \in cols |-> IF c \in Range(f.columns) THEN f.rows[i][c] ELSE NaN]]
          \o ConcatRows(Tail(frames), cols)

\* dtype of a concatenated column: str values make it object, a NaN or a
\* float makes an integer column float64
CellsDtype(rows, c) ==
  IF Len(rows) = 0 THEN "object"
  ELSE IF \E i \in 1..Len(rows) : rows[i][c].k = "str" THEN "object"
  ELSE IF \A i \in 1..Len(rows) : rows[i][c].k = "num" /\ rows[i][c].fk = "int" THEN "int64"
  ELSE "float64"

CastCell(dtype, cell) ==
  IF dtype = "float64" /\ cell.k = "num" THEN Num("float", cell.n, cell.d) ELSE cell

\* pd.concat(all_data, ignore_index=True)
concat(all_data) ==
  LET cols == ConcatColumns(all_data)
      raw == ConcatRows(all_data, Range(cols))
      dt == [c \in Range(cols) |-> CellsDtype(raw, c)]
  IN [columns |-> cols,
      dtype |-> dt,
      rows |-> [i \in 1..Len(raw) |-> [c \in Range(cols) |-> CastCell(dt[c], raw[i][c])]]]

(* ------------------- pandas: drop_duplicates and groupby --------------- *)

\* the value of a cell as a grouping key (1 and 1.0 are the same key, all
\* NaN are the same key)
KeyOf(cell) ==
  IF cell.k = "num" THEN [k |-> "num", fk |-> "", n |-> cell.n, d |-> cell.d, s |-> ""]
  ELSE IF cell.k = "nan" THEN [k |-> "nan", fk |-> "", n |-> 0, d |-> 1, s |-> ""]
  ELSE cell

\* drop_duplicates keeping the last occurrence
drop_duplicates_last(df) ==
  [df EXCEPT !.rows =
     LET keep == {i \in 1..Len(df.rows) :
                    \A j \in (i + 1)..Len(df.rows) : KeyOf(df.rows[j]["barcode"]) # KeyOf(df.rows[i]["barcode"])}
         Nth(j) == CHOOSE i \in keep : Cardinality({m \in keep : m < i}) = j - 1
     IN [j \in 1..Cardinality(keep) |-> df.rows[Nth(j)]]]

\* merged_data.drop_duplicates(subset='barcode', keep='first')
drop_duplicates_first(df) ==
  [df EXCEPT !.rows =
     LET keep == {i \in 1..Len(df.rows) :
                    \A j \in 1..(i - 1) : KeyOf(df.rows[j]["barcode"]) # KeyOf(df.rows[i]["barcode"])}
         Nth(j) == CHOOSE i \in keep : Cardinality({m \in keep : m < i}) = j - 1
     IN [j \in 1..Cardinality(keep) |-> df.rows[Nth(j)]]]

\* the texts of the model in lexicographic order
TextOrder == <<"AAAC", "CCGT", "GGTA", "TTAG", "high">>

TextRank(s) == CHOOSE i \in 1..Len(TextOrder) : TextOrder[i] = s

\* a < b for two non-NaN values of one column: numbers by value, texts
\* lexicographically (a column holds numbers or texts, not both)
CellLess(a, b) ==
  IF a.k = "num" /\ b.k = "num" THEN a.n * b.d < b.n * a.d
  ELSE IF a.k = "str" /\ b.k = "str" THEN TextRank(a.s) < TextRank(b.s)
  ELSE a.k = "num" /\ b.k = "str"

\* the group keys of groupby('barcode'): the distinct non-NaN barcodes,
\* sorted
GroupKeys(df) ==
  LET keys == {KeyOf(df.rows[i]["barcode"]) : i \in {j \in 1..Len(df.rows) : df.rows[j]["barcode"].k # "nan"}}
      Nth(j) == CHOOSE x \in keys : Cardinality({y \in keys : CellLess(y, x)}) = j - 1
  IN [j \in 1..Cardinality(keys) |-> Nth(j)]

GroupRows(df, key) == SelectSeq(df.rows, LAMBDA r : KeyOf(r["barcode"]) = key)

\* first non-NaN value of the group instead of the mean
GroupFirstValue(rows, c) ==
  LET idx == {i \in 1..Len(rows) : rows[i][c].k = "num"}
  IN IF idx = {} THEN NaN
     ELSE LET m == CHOOSE i \in idx : \A j \in idx : i <= j
          IN Num("float", rows[m][c].n, rows[m][c].d)

\* mean counting a missing value as zero
GroupMeanZeroFill(rows, c) ==
  IF CountNum(rows, c) = 0 THEN NaN
  ELSE Num("float", SumNum(rows, c), SumDen(rows, c) * Len(rows))

\* GroupBy.mean() of one column over one group: NaN is skipped
GroupMean(rows, c) ==
  IF CountNum(rows, c) = 0 THEN NaN
  ELSE Num("float", SumNum(rows, c), SumDen(rows, c) * CountNum(rows, c))

\* the column's value in the group's first row
GroupHeadValue(rows, c) == rows[1][c]

\* GroupBy.max() of one column over one group: NaN is skipped
GroupMax(rows, c) ==
  LET idx == {i \in 1..Len(rows) : rows[i][c].k # "nan"}
  IN IF idx = {} THEN NaN
     ELSE LET m == CHOOSE i \in idx : \A j \in idx : ~CellLess(rows[i][c], rows[j][c])
          IN rows[m][c]

\* merged_data.groupby('barcode').<how>().reset_index(); the mean of a
\* column holding str values is a TypeError
groupby_agg(df, how) ==
  LET others == SelectSeq(df.columns, LAMBDA c : c # "barcode")
      keys == GroupKeys(df)
      grouped == {i \in 1..Len(df.rows) : df.rows[i]["barcode"].k # "nan"}
      bad == how = "mean" /\ \E c \in Range(others) : \E i \in grouped : df.rows[i][c].k = "str"
      cols == <<"barcode">> \o others
      Agg(key, c) ==
        IF c = "barcode" THEN CHOOSE x \in {df.rows[i]["barcode"] : i \in grouped} : KeyOf(x) = key
        ELSE IF how = "mean" THEN GroupMean(GroupRows(df, key), c)
        ELSE GroupMax(GroupRows(df, key), c)
  IN IF bad THEN [err |-> "TypeError", df |-> df]
     ELSE [err |-> "",
           df |-> [columns |-> cols,
                   dtype |-> [c \in Range(cols) |-> IF how = "mean" /\ c # "barcode" THEN "float64" ELSE df.dtype[c]],
                   rows |-> [j \in 1..Len(keys) |-> [c \in Range(cols) |-> Agg(keys[j], c)]]]]

(* ------------------------------- merge_tiles --------------------------- *)

MaxTiles == 3

Policies == <<"average", "max", "first">>

\* the tiles the loop reads: those whose suffix is .csv
CsvTiles(tile_files) == SelectSeq(tile_files, LAMBDA p : p.suffix = "csv")

\* Handle overlaps
ResolveOverlaps(merged_data, overlap_resolution) ==
  IF "barcode" \notin Range(merged_data.columns) THEN [err |-> "", df |-> merged_data]
  ELSE IF overlap_resolution = "first" THEN [err |-> "", df |-> drop_duplicates_first(merged_data)]
  ELSE IF overlap_resolution = "average" THEN groupby_agg(merged_data, "mean")
  ELSE groupby_agg(merged_data, "max")

\* the try block up to the resolved table: err names the exception raised
MergeFrames(files, tile_files, overlap_resolution) ==
  LET csv == CsvTiles(tile_files)
      all_data == [i \in 1..Len(csv) |-> read_csv(files[csv[i]])]
  IN IF \E i \in 1..Len(csv) : files[csv[i]].header = <<>>
     THEN [err |-> "EmptyDataError", all_data |-> all_data, df |-> read_csv([header |-> <<>>, rows |-> <<>>])]
     ELSE IF all_data = <<>>
     THEN [err |-> "ValueError", all_data |-> all_data, df |-> read_csv([header |-> <<>>, rows |-> <<>>])]
     ELSE LET r == ResolveOverlaps(concat(all_data), overlap_resolution)
          IN [err |-> r.err, all_data |-> all_data, df |-> r.df]

\* overlapping_barcodes as computed on line 518
OverlappingBarcodes(all_data, merged_data) ==
  IF Len(all_data) >= 2
  THEN Len(all_data[1].rows) + Len(all_data[2].rows) - Len(merged_data.rows)
  ELSE 0

\* overlap_percent without the len(merged_data) > 0 guard
OverlapPercentNoGuard(all_data, merged_data) ==
  IF Len(all_data) >= 2
  THEN Rat((Len(all_data[1].rows) + Len(all_data[2].rows) - Len(merged_data.rows)) * 100,
           Len(merged_data.rows))
  ELSE Zero

\* overlap_percent as computed on line 519
OverlapPercent(all_data, merged_data) ==
  IF Len(all_data) >= 2 /\ Len(merged_data.rows) > 0
  THEN Rat((Len(all_data[1].rows) + Len(all_data[2].rows) - Len(merged_data.rows)) * 100,
           Len(merged_data.rows))
  ELSE Zero

\* a validation that lets every policy name through
ValidPolicyAny(overlap_resolution) == TRUE

\* overlap_resolution in ["average", "max", "first"]
ValidPolicy(overlap_resolution) == overlap_resolution \in Range(Policies)

MergeDryRunResult(output_path, tile_files) ==
  [status |-> "ok", mode |-> "dry_run", output_file |-> output_path,
   tiles_merged |-> Len(tile_files), total_barcodes |-> 85000,
   overlapping_barcodes |-> 5000, overlap_percent |-> [n |-> 59, d |-> 10]]

MergeRealResult(output_path, tile_files, all_data, merged_data) ==
  [status |-> "ok", mode |-> "real", output_file |-> output_path,
   tiles_merged |-> Len(tile_files), total_barcodes |-> Len(merged_data.rows),
   overlapping_barcodes |-> OverlappingBarcodes(all_data, merged_data),
   overlap_percent |-> OverlapPercent(all_data, merged_data)]

\* the existence probes of the validation loop: up to the first missing tile
ProbeIO(tile_files) ==
  LET missing == {i \in 1..Len(tile_files) : ~Exists(tile_files[i])}
      last == IF missing = {} THEN Len(tile_files)
              ELSE CHOOSE i \in missing : \A j \in missing : i <= j
  IN [i \in 1..last |-> Ev("exists", tile_files[i])]

\* the reads of the loading loop: up to the first file that fails to parse
ReadIO(tile_files) ==
  LET csv == CsvTiles(tile_files)
      bad == {i \in 1..Len(csv) : fs[csv[i]].header = <<>>}
      last == IF bad = {} THEN Len(csv) ELSE CHOOSE i \in bad : \A j \in bad : i <= j
  IN [i \in 1..last |-> Ev("read", csv[i])]

merge_tiles(tile_files, output_file, overlap_resolution) ==
  LET io1 == EnsureDirsIO
      io2 == io1 \o ProbeIO(tile_files)
      io3 == io2 \o <<Ev("mkdir", output_file.dir)>>
      io4 == io3 \o ReadIO(tile_files)
      m == MergeFrames(fs, tile_files, overlap_resolution)
  IN /\ ncalls < MaxCalls
     /\ ncalls' = ncalls + 1
     /\ call' = [tool |-> "merge_tiles", tile_files |-> tile_files, output_file |-> output_file,
                 overlap_resolution |-> overlap_resolution]
     /\ UNCHANGED DRY_RUN
     /\ IF tile_files = <<>>
        THEN /\ result' = Err("ValueError", "No tile files provided", "")
             /\ io' = io1
             /\ dirs' = dirs \cup Range(EnsuredDirs)
             /\ UNCHANGED fs
        ELSE IF ~ValidPolicy(overlap_resolution)
        THEN /\ result' = Err("ValueError", "Invalid overlap resolution method", "")
             /\ io' = io1
             /\ dirs' = dirs \cup Range(EnsuredDirs)
             /\ UNCHANGED fs
        ELSE IF \E i \in 1..Len(tile_files) : ~Exists(tile_files[i])
        THEN /\ result' = Err("IOError", "Tile file not found", "")
             /\ io' = io2
             /\ dirs' = dirs \cup Range(EnsuredDirs)
             /\ UNCHANGED fs
        ELSE IF DRY_RUN
        THEN /\ result' = MergeDryRunResult(output_file, tile_files)
             /\ io' = io3
             /\ dirs' = dirs \cup Range(EnsuredDirs) \cup {output_file.dir}
             /\ UNCHANGED fs
        ELSE IF m.err # ""
        THEN /\ result' = Err("IOError", "Failed to merge tiles", m.err)
             /\ io' = io4
             /\ dirs' = dirs \cup Range(EnsuredDirs) \cup {output_file.dir}
             /\ UNCHANGED fs
        ELSE /\ result' = MergeRealResult(output_file, tile_files, m.all_data, m.df)
             /\ io' = io4 \o <<Ev("write", output_file)>>
             /\ dirs' = dirs \cup Range(EnsuredDirs) \cup {output_file.dir}
             /\ fs' = (output_file :> to_csv(m.df)) @@ fs

(* --------------------------- merge_tiles: inputs ----------------------- *)

Tile1 == MkPath("tiles", <<"tile", "1">>, "csv")

Tile2 == MkPath("tiles", <<"tile", "2">>, "csv")

Tile3 == MkPath("tiles", <<"tile", "3">>, "csv")

TileTsv == MkPath("tiles", <<"tile", "4">>, "tsv")

MissingTile == MkPath("tiles", <<"tile", "9">>, "csv")

MergedCsv == MkPath("out", <<"merged">>, "csv")

\* an output file directly under the server's data directory
DataMergedCsv == MkPath("DATA_DIR", <<"merged">>, "csv")

TileHeader == <<"barcode", "n_reads", "n_genes">>

TileRow(b, r, g) == [barcode |-> FText(b), n_reads |-> r, n_genes |-> g]

\* the rows a tile can hold: three observations of spot AAAC, one of CCGT
TileRows ==
  {TileRow("AAAC", FInt(1), FInt(2)), TileRow("AAAC", FInt(3), FInt(1)),
   TileRow("AAAC", FEmpty, FInt(1)), TileRow("CCGT", FInt(1), FInt(1))}

\* a tile: at most MaxRows rows, no barcode twice
TileFiles ==
  {[header |-> TileHeader, rows |-> rs] :
     rs \in {q \in SeqsUpTo(TileRows, MaxRows) :
               \A i, j \in 1..Len(q) : i # j => q[i]["barcode"] # q[j]["barcode"]}}

\* a tile without the n_genes column, and a table without a barcode column
OtherSchemaFiles ==
  {[header |-> <<"barcode", "n_reads">>, rows |-> <<[barcode |-> FText("AAAC"), n_reads |-> FInt(3)]>>],
   [header |-> <<"n_reads", "n_genes">>, rows |-> <<[n_reads |-> FInt(1), n_genes |-> FInt(1)]>>]}

Tile3File == [header |-> TileHeader, rows |-> <<TileRow("GGTA", FInt(2), FInt(2))>>]

TsvFile == [header |-> TileHeader, rows |-> <<TileRow("AAAC", FInt(3), FInt(1))>>]

PolicyArgs == Range(Policies) \cup {"median"}

InitMerge ==
  /\ DRY_RUN \in BOOLEAN
  /\ \E t1 \in TileFiles \cup OtherSchemaFiles, t2 \in TileFiles \cup OtherSchemaFiles :
       fs = (Tile1 :> t1) @@ (Tile2 :> t2) @@ (Tile3 :> Tile3File) @@ (TileTsv :> TsvFile)
  /\ dirs = {"tiles"}
  /\ io = <<>>
  /\ result = NoResult
  /\ call = NoCall
  /\ ncalls = 0

TilePaths == {Tile1, Tile2, Tile3, TileTsv, MissingTile}

\* the tile lists of a request: at most MaxTiles paths, no path twice
TileLists ==
  {q \in SeqsUpTo(TilePaths, MaxTiles) : \A i, j \in 1..Len(q) : i # j => q[i] # q[j]}

MergeTiles ==
  \E tile_files \in TileLists,
     output_file \in {MergedCsv, DataMergedCsv}, overlap_resolution \in PolicyArgs :
    merge_tiles(tile_files, output_file, overlap_resolution)

\* a freshly started server serves one merge_tiles request
NextMerge == call = NoCall /\ MergeTiles

SpecMerge == InitMerge /\ [][NextMerge]_vars

(* ---------------------- split_by_region: segmentation ------------------ *)

\* a label as a cell of the region column
LabelCell(s) == Str(FText(s))

\* labels=[f"region_{i}" for i in range(num_regions)]
GridLabels == <<"region_0", "region_1", "region_2", "region_3">>

num_regions == Len(GridLabels)

\* pd.cut(x, bins=num_regions, labels=...): equal-width bins over
\* [min, max], each closed on the right, the lowest one holding the minimum;
\* an empty x, a str in x or an x of NaN only is an error; when all values
\* are equal the range is widened on both sides and the value falls in the
\* second bin; NaN gets no label
cut(x) ==
  LET idx == {i \in 1..Len(x) : x[i].k = "num"}
      mn == CHOOSE i \in idx : \A j \in idx : x[i].n * x[j].d <= x[j].n * x[i].d
      mx == CHOOSE i \in idx : \A j \in idx : x[j].n * x[i].d <= x[i].n * x[j].d
      \* v - min and max - min as multiples of 1/D
      D(i) == x[i].d * x[mn].d * x[mx].d
      Off(i) == x[i].n * x[mn].d * x[mx].d - x[mn].n * x[i].d * x[mx].d
      Width(i) == x[mx].n * x[i].d * x[mn].d - x[mn].n * x[i].d * x[mx].d
      Bin(i) == CHOOSE k \in 1..num_regions :
                  /\ num_regions * Off(i) <= k * Width(i)
                  /\ \A m \in 1..(k - 1) : num_regions * Off(i) > m * Width(i)
  IN IF Len(x) = 0 THEN [err |-> "ValueError", labels |-> <<>>]
     ELSE IF \E i \in 1..Len(x) : x[i].k = "str" THEN [err |-> "TypeError", labels |-> <<>>]
     ELSE IF idx = {} THEN [err |-> "ValueError", labels |-> <<>>]
     ELSE [err |-> "",
           labels |-> [i \in 1..Len(x) |->
                         IF x[i].k # "num" THEN NaN
                         ELSE IF Width(i) = 0 THEN LabelCell(GridLabels[2])
                         ELSE LabelCell(GridLabels[Bin(i)])]]

\* data['region'] = values
WithRegion(data, values) ==
  [columns |-> Append(data.columns, "region"),
   dtype |-> ("region" :> "object") @@ data.dtype,
   rows |-> [i \in 1..Len(data.rows) |-> ("region" :> values[i]) @@ data.rows[i]]]

\* data.get('x_coord', np.random.rand(len(data))): the drawn values rand
\* stand in when the table has no x_coord column
cut_x_coord(data, rand) ==
  cut(IF "x_coord" \in Range(data.columns)
      THEN [i \in 1..Len(data.rows) |-> data.rows[i]["x_coord"]]
      ELSE rand)

\* the region assignment of lines 243-254; choice and rand are the values
\* np.random.choice and np.random.rand return
AssignRegions(data, regions, choice, rand) ==
  IF "region" \in Range(data.columns) THEN [err |-> "", df |-> data]
  ELSE IF regions # <<>>
  THEN [err |-> "", df |-> WithRegion(data, [i \in 1..Len(data.rows) |-> LabelCell(regions[choice[i]])])]
  ELSE LET c == cut_x_coord(data, rand)
       IN IF c.err # "" THEN [err |-> c.err, df |-> data]
          ELSE [err |-> "", df |-> WithRegion(data, c.labels)]

\* data['region'].unique(): the distinct values in order of appearance, NaN
\* among them
unique(data) ==
  LET first == {i \in 1..Len(data.rows) :
                  \A j \in 1..(i - 1) : KeyOf(data.rows[j]["region"]) # KeyOf(data.rows[i]["region"])}
      Nth(j) == CHOOSE i \in first : Cardinality({m \in first : m < i}) = j - 1
  IN [j \in 1..Cardinality(first) |-> data.rows[Nth(j)]["region"]]

\* data[data['region'] == region_name]: NaN equals nothing, itself included
RegionData(data, region_name) ==
  [data EXCEPT !.rows =
     SelectSeq(data.rows,
               LAMBDA r : r["region"].k # "nan" /\ KeyOf(r["region"]) = KeyOf(region_name))]

\* str(region_name)
RegionNameText(region_name) == IF region_name.k = "nan" THEN "nan" ELSE region_name.s

\* a label with a path separator in it names a file in a sub-directory
NestedLabel == "tumor/core"

SubDir(output_dir) == IF output_dir = "out" THEN "out/tumor" ELSE "in/tumor"

\* output_path / f"{region_name}.csv"
RegionFile(output_dir, region_name) ==
  IF RegionNameText(region_name) = NestedLabel
  THEN MkPath(SubDir(output_dir), <<"core">>, "csv")
  ELSE MkPath(output_dir, <<RegionNameText(region_name)>>, "csv")

RECURSIVE WriteRegions(_, _, _, _, _)
\* the loop of lines 260-270 over the region names still to write: each
\* region's rows are written to its file; to_csv into a directory that does
\* not exist raises OSError and ends the loop, the files written before it
\* stay
WriteRegions(names, data, output_dir, files, ds) ==
  IF names = <<>> THEN [err |-> "", fs |-> files, io |-> <<>>, regions |-> <<>>]
  ELSE LET region_name == Head(names)
           region_data == RegionData(data, region_name)
           region_file == RegionFile(output_dir, region_name)
           rest == WriteRegions(Tail(names), data, output_dir,
                                (region_file :> to_csv(region_data)) @@ files, ds)
       IN IF region_file.dir \notin ds
          THEN [err |-> "OSError", fs |-> files, io |-> <<>>, regions |-> <<>>]
          ELSE [err |-> rest.err,
                fs |-> rest.fs,
                io |-> <<Ev("write", region_file)>> \o rest.io,
                regions |-> <<[name |-> RegionNameText(region_name), file |-> region_file,
                               barcode_count |-> Len(region_data.rows)]>> \o rest.regions]

RECURSIVE SumCounts(_)
SumCounts(regions) ==
  IF regions = <<>> THEN 0 ELSE Head(regions).barcode_count + SumCounts(Tail(regions))

\* barcodes_per_region: int(np.mean), int(np.min), int(np.max) of the counts
RegionStats(regions) ==
  LET counts == {regions[i].barcode_count : i \in 1..Len(regions)}
  IN [mean |-> SumCounts(regions) \div Len(regions),
      min |-> CHOOSE c \in counts : \A e \in counts : c <= e,
      max |-> CHOOSE c \in counts : \A e \in counts : c >= e]

\* regions or ["region_1", "region_2", "region_3"]
mock_regions(regions) == IF regions # <<>> THEN regions ELSE <<"region_1", "region_2", "region_3">>

\* counts are the values np.random.randint(5000, 15000) returns
SplitDryRunResult(output_dir, regions, counts) ==
  LET mock == mock_regions(regions)
  IN [status |-> "ok", mode |-> "dry_run",
      regions |-> [i \in 1..Len(mock) |->
                     [name |-> mock[i], file |-> MkPath(output_dir, <<mock[i]>>, "csv"),
                      barcode_count |-> counts[i]]],
      total_regions |-> Len(mock),
      barcodes_per_region |-> [mean |-> 10000, min |-> 5000, max |-> 15000]]

SplitRealResult(region_files) ==
  [status |-> "ok", mode |-> "real",
   regions |-> region_files,
   total_regions |-> Len(region_files),
   barcodes_per_region |-> RegionStats(region_files)]

\* the values np.random.randint(5000, 15000) can return: the least and the
\* greatest
RandIntValues == {5000, 14999}

\* values np.random.rand can return
RandValues == {Num("float", 1, 4), Num("float", 3, 4)}

\* the draws of a call: none when the code path makes no draw
Draws(n, needed, values) == IF needed THEN [1..n -> values] ELSE {<<>>}

split_by_region(input_file, output_dir, regions, coordinate_file) ==
  LET io1 == EnsureDirsIO \o <<Ev("exists", input_file)>>
      io2 == io1 \o <<Ev("mkdir", output_dir)>>
      io3 == io2 \o <<Ev("read", input_file)>>
      ds == dirs \cup Range(EnsuredDirs) \cup {output_dir}
      data == read_csv(fs[input_file])
      labelled == "region" \in Range(data.columns)
  IN /\ ncalls < MaxCalls
     /\ ncalls' = ncalls + 1
     /\ call' = [tool |-> "split_by_region", input_file |-> input_file, output_dir |-> output_dir,
                 regions |-> regions, coordinate_file |-> coordinate_file]
     /\ UNCHANGED DRY_RUN
     /\ IF ~Exists(input_file)
        THEN /\ result' = Err("IOError", "Input file not found", "")
             /\ io' = io1
             /\ dirs' = dirs \cup Range(EnsuredDirs)
             /\ UNCHANGED fs
        ELSE IF DRY_RUN
        THEN /\ \E counts \in [1..Len(mock_regions(regions)) -> RandIntValues] :
                  result' = SplitDryRunResult(output_dir, regions, counts)
             /\ io' = io2
             /\ dirs' = ds
             /\ UNCHANGED fs
        ELSE IF input_file.suffix # "csv"
        THEN /\ result' = Err("IOError", "Failed to split by region", "ValueError")
             /\ io' = io2
             /\ dirs' = ds
             /\ UNCHANGED fs
        ELSE IF fs[input_file].header = <<>>
        THEN /\ result' = Err("IOError", "Failed to split by region", "EmptyDataError")
             /\ io' = io3
             /\ dirs' = ds
             /\ UNCHANGED fs
        ELSE \E choice \in Draws(Len(data.rows), ~labelled /\ regions # <<>>, 1..Len(regions)),
                rand \in Draws(Len(data.rows),
                               ~labelled /\ regions = <<>> /\ "x_coord" \notin Range(data.columns),
                               RandValues) :
               LET a == AssignRegions(data, regions, choice, rand)
                   w == WriteRegions(unique(a.df), a.df, output_dir, fs, ds)
               IN /\ dirs' = ds
                  /\ IF a.err # ""
                     THEN /\ result' = Err("IOError", "Failed to split by region", a.err)
                          /\ io' = io3
                          /\ UNCHANGED fs
                     ELSE /\ fs' = w.fs
                          /\ io' = io3 \o w.io
                          /\ result' = IF w.err # ""
                                       THEN Err("IOError", "Failed to split by region", w.err)
                                       ELSE IF w.regions = <<>>
                                       THEN \* int(np.mean([])): NaN to integer
                                            Err("IOError", "Failed to split by region", "ValueError")
                                       ELSE SplitRealResult(w.regions)

(* ------------------------ split_by_region: inputs ---------------------- *)

SplitInput == MkPath("in", <<"tumor">>, "csv")

MissingSplit == MkPath("in", <<"missing">>, "csv")

XFields == {FInt(0), FInt(4), FEmpty}

RegionFields == {FText("tumor"), FText("stroma"), FText(NestedLabel), FEmpty}

\* the tables of at most MaxRows rows with the barcode and one more column
SplitFilesWith(c, fields) ==
  {[header |-> <<"barcode", c>>,
    rows |-> [i \in 1..Len(vs) |-> ("barcode" :> BarcodeOf(i)) @@ (c :> vs[i])]] :
     vs \in SeqsUpTo(fields, MaxRows)}

\* the tables of at most MaxRows rows that hold barcodes only
BareFiles ==
  {[header |-> <<"barcode">>, rows |-> [i \in 1..n |-> [barcode |-> BarcodeOf(i)]]] : n \in 0..MaxRows}

SplitFiles == SplitFilesWith("x_coord", XFields) \cup SplitFilesWith("region", RegionFields) \cup BareFiles

\* the optional arguments of a request: neither, a list of region names, or
\* a coordinate file
SplitOptions ==
  {[regions |-> <<>>, coordinate_file |-> "None"],
   [regions |-> <<"tumor", "stroma">>, coordinate_file |-> "None"],
   [regions |-> <<>>, coordinate_file |-> "roi.csv"]}

SplitOutputDirs == {"out", "in"}

InitSplit ==
  /\ DRY_RUN \in BOOLEAN
  /\ \E file \in SplitFiles : fs = (SplitInput :> file) @@ (InputH5 :> H5File)
  /\ dirs = {"in"}
  /\ io = <<>>
  /\ result = NoResult
  /\ call = NoCall
  /\ ncalls = 0

SplitByRegion ==
  \E input_file \in DOMAIN fs \cup {MissingSplit}, output_dir \in SplitOutputDirs,
     opt \in SplitOptions :
    split_by_region(input_file, output_dir, opt.regions, opt.coordinate_file)

NextSplit == SplitByRegion

SpecSplit == InitSplit /\ [][NextSplit]_vars

(* ---------------------------- align_spatial_data ----------------------- *)

\* the statistics both the dry run and the real run return
AlignResult(output_dir, mode) ==
  [status |-> "ok", mode |-> mode,
   aligned_bam |-> MkPath(output_dir, <<"Aligned.sortedByCoord.out">>, "bam"),
   alignment_stats |-> [total_reads |-> 50000000, uniquely_mapped |-> 42500000,
                        multi_mapped |-> 3750000, unmapped |-> 3750000,
                        alignment_rate |-> [n |-> 37, d |-> 40],
                        unique_mapping_rate |-> [n |-> 17, d |-> 20]],
   log_file |-> MkPath(output_dir, <<"Log.final">>, "out")]

\* "zcat" if r1_path.suffix == ".gz" else "cat"
ReadFilesCommand(r1_path) == IF r1_path.suffix = "gz" THEN "zcat" ELSE "cat"

\* how subprocess.run(star_cmd, timeout=1800) can end: exit status 0, a
\* non-zero exit status, the deadline passing, or no STAR executable
StarOutcomes == {"exit_0", "exit_nonzero", "timeout", "no_executable"}

\* the exception the try block raises for an outcome
StarException(outcome) ==
  IF outcome = "exit_nonzero" THEN "CalledProcessError"
  ELSE IF outcome = "timeout" THEN "TimeoutExpired"
  ELSE "FileNotFoundError"

\* the two except clauses: both raise IOError from the exception
AlignFailure(exception) ==
  IF exception = "TimeoutExpired"
  THEN Err("IOError", "STAR alignment timeout", exception)
  ELSE Err("IOError", "STAR alignment failed", exception)

align_spatial_data(fastq_r1, fastq_r2, reference_genome, output_dir, threads) ==
  LET io1 == EnsureDirsIO \o <<Ev("exists", fastq_r1)>>
      io2 == io1 \o <<Ev("exists", fastq_r2)>>
      io3 == io2 \o <<Ev("mkdir", output_dir)>>
      io4 == io3 \o <<Ev("run", ReadFilesCommand(fastq_r1))>>
  IN /\ ncalls < MaxCalls
     /\ ncalls' = ncalls + 1
     /\ call' = [tool |-> "align_spatial_data", fastq_r1 |-> fastq_r1, fastq_r2 |-> fastq_r2,
                 reference_genome |-> reference_genome, output_dir |-> output_dir,
                 threads |-> threads]
     /\ UNCHANGED <<DRY_RUN, fs>>
     /\ IF ~Exists(fastq_r1)
        THEN /\ result' = Err("IOError", "FASTQ R1 not found", "")
             /\ io' = io1
             /\ dirs' = dirs \cup Range(EnsuredDirs)
        ELSE IF ~Exists(fastq_r2)
        THEN /\ result' = Err("IOError", "FASTQ R2 not found", "")
             /\ io' = io2
             /\ dirs' = dirs \cup Range(EnsuredDirs)
        ELSE IF threads < 1 \/ threads > 64
        THEN /\ result' = Err("ValueError", "Invalid thread count", "")
             /\ io' = io2
             /\ dirs' = dirs \cup Range(EnsuredDirs)
        ELSE IF DRY_RUN
        THEN /\ result' = AlignResult(output_dir, "dry_run")
             /\ io' = io3
             /\ dirs' = dirs \cup Range(EnsuredDirs) \cup {output_dir}
        ELSE /\ \E outcome \in StarOutcomes :
                  result' = IF outcome = "exit_0" THEN AlignResult(output_dir, "real")
                            ELSE AlignFailure(StarException(outcome))
             /\ io' = io4
             /\ dirs' = dirs \cup Range(EnsuredDirs) \cup {output_dir}

(* ----------------------- align_spatial_data: inputs -------------------- *)

FastqR1 == MkPath("fastq", <<"sample", "R1">>, "fastq")

FastqR1Gz == MkPath("fastq", <<"sample", "R1", "fastq">>, "gz")

FastqR2 == MkPath("fastq", <<"sample", "R2">>, "fastq")

MissingFastq == MkPath("fastq", <<"missing">>, "fastq")

\* a FASTQ file: no table in it
FastqFile == [header |-> <<>>, rows |-> <<>>]

ThreadsArgs == {0, 1, 8, 64, 65}

GenomeDirs == {"ref/star_index"}

AlignOutputDirs == {"aligned_out", "DATA_DIR/aligned"}

InitAlign ==
  /\ DRY_RUN \in BOOLEAN
  /\ fs = (FastqR1 :> FastqFile) @@ (FastqR1Gz :> FastqFile) @@ (FastqR2 :> FastqFile)
  /\ dirs = {"fastq"}
  /\ io = <<>>
  /\ result = NoResult
  /\ call = NoCall
  /\ ncalls = 0

AlignSpatialData ==
  \E fastq_r1 \in {FastqR1, FastqR1Gz, MissingFastq}, fastq_r2 \in {FastqR2, MissingFastq},
     reference_genome \in GenomeDirs, output_dir \in AlignOutputDirs, threads \in ThreadsArgs :
    align_spatial_data(fastq_r1, fastq_r2, reference_genome, output_dir, threads)

NextAlign == AlignSpatialData

SpecAlign == InitAlign /\ [][NextAlign]_vars

(* -------------------- the tools' blocking operations ------------------- *)

(***************************************************************************)
(* A tool call seen operation by operation: each pd.read_csv, each to_csv  *)
(* and the subprocess.run of the aligner is issued and then waited for.    *)
(* io holds the operations issued so far, the last one being the one the   *)
(* call waits for; the result is pending until the call returns.  Of these *)
(* waits only subprocess.run carries a deadline (timeout=1800).            *)
(***************************************************************************)

Pending == [status |-> "pending"]

\* filter_quality past its checks: the read, the masks, the write
FilterPlan(c) ==
  LET output_path == FilterOutputPath(c.input_file, c.output_dir)
      data == read_csv(fs[c.input_file])
      f == ApplyFilters(data, c.min_reads, c.min_genes, c.max_mt_percent)
  IN IF f.err # ""
     THEN [ops |-> <<Ev("read", c.input_file)>>,
           result |-> Err("IOError", "Failed to filter quality", f.err), fs |-> fs]
     ELSE [ops |-> <<Ev("read", c.input_file), Ev("write", output_path)>>,
           result |-> FilterRealResult(output_path, data, f.df),
           fs |-> (output_path :> to_csv(f.df)) @@ fs]

\* split_by_region past its checks, on a table that has a region column:
\* the read, then one write per region
SplitPlan(c) ==
  LET data == read_csv(fs[c.input_file])
      w == WriteRegions(unique(data), data, c.output_dir, fs,
                        dirs \cup Range(EnsuredDirs) \cup {c.output_dir})
  IN [ops |-> <<Ev("read", c.input_file)>> \o w.io,
      result |-> IF w.err # "" THEN Err("IOError", "Failed to split by region", w.err)
                 ELSE IF w.regions = <<>> THEN Err("IOError", "Failed to split by region", "ValueError")
                 ELSE SplitRealResult(w.regions),
      fs |-> w.fs]

\* merge_tiles past its checks: one read per .csv tile, then the write
MergePlan(c) ==
  LET m == MergeFrames(fs, c.tile_files, c.overlap_resolution)
  IN IF m.err # ""
     THEN [ops |-> ReadIO(c.tile_files),
           result |-> Err("IOError", "Failed to merge tiles", m.err), fs |-> fs]
     ELSE [ops |-> ReadIO(c.tile_files) \o <<Ev("write", c.output_file)>>,
           result |-> MergeRealResult(c.output_file, c.tile_files, m.all_data, m.df),
           fs |-> (c.output_file :> to_csv(m.df)) @@ fs]

\* the file operations of a call, its result and the files it leaves
PlanOf(c) ==
  IF c.tool = "filter_quality" THEN FilterPlan(c)
  ELSE IF c.tool = "split_by_region" THEN SplitPlan(c)
  ELSE MergePlan(c)

\* the directories a call makes before its first blocking operation
OutputDirOf(c) == IF c.tool = "merge_tiles" THEN c.output_file.dir ELSE c.output_dir

\* a tool is called: its checks pass and its first blocking operation is
\* issued
Begin(c, op) ==
  /\ result.status # "pending"
  /\ ncalls < MaxCalls
  /\ ncalls' = ncalls + 1
  /\ call' = c
  /\ result' = Pending
  /\ io' = <<op>>
  /\ dirs' = dirs \cup Range(EnsuredDirs) \cup {OutputDirOf(c)}
  /\ UNCHANGED <<DRY_RUN, fs>>

\* the operating system completes the read or write the call waits for:
\* the call issues its next operation, or returns
FileOperationReturns ==
  /\ result = Pending
  /\ io[Len(io)].op \in {"read", "write"}
  /\ LET p == PlanOf(call)
     IN IF Len(io) < Len(p.ops)
        THEN /\ io' = Append(io, p.ops[Len(io) + 1])
             /\ UNCHANGED <<result, fs>>
        ELSE /\ result' = p.result
             /\ fs' = p.fs
             /\ UNCHANGED io
  /\ UNCHANGED <<DRY_RUN, dirs, call, ncalls>>

\* the aligner ends, or cannot be started, before the deadline
ProcessExits ==
  /\ result = Pending
  /\ io[Len(io)].op = "run"
  /\ \E outcome \in StarOutcomes \ {"timeout"} :
       result' = IF outcome = "exit_0" THEN AlignResult(call.output_dir, "real")
                 ELSE AlignFailure(StarException(outcome))
  /\ UNCHANGED <<DRY_RUN, fs, dirs, io, call, ncalls>>

\* timeout=1800 passes while the aligner runs: subprocess.TimeoutExpired
DeadlineExpires ==
  /\ result = Pending
  /\ io[Len(io)].op = "run"
  /\ result' = AlignFailure(StarException("timeout"))
  /\ UNCHANGED <<DRY_RUN, fs, dirs, io, call, ncalls>>

(* ------------------- the tools' blocking operations: inputs ------------ *)

LabelledFile ==
  [header |-> <<"barcode", "region">>,
   rows |-> <<[barcode |-> BarcodeOf(1), region |-> FText("tumor")],
              [barcode |-> BarcodeOf(2), region |-> FText("stroma")]>>]

Tile1File == [header |-> TileHeader, rows |-> <<TileRow("AAAC", FInt(1), FInt(2))>>]

InitBlocking ==
  /\ DRY_RUN = FALSE
  /\ \E file \in FilterFiles(FullHeader) :
       fs = (InputCsv :> file) @@ (SplitInput :> LabelledFile)
            @@ (Tile1 :> Tile1File) @@ (Tile2 :> Tile3File)
            @@ (FastqR1 :> FastqFile) @@ (FastqR2 :> FastqFile)
  /\ dirs = {"in", "tiles", "fastq"}
  /\ io = <<>>
  /\ result = NoResult
  /\ call = NoCall
  /\ ncalls = 0

BeginFilter ==
  \E min_reads \in MinReadsArgs \ {-1} :
    LET c == [tool |-> "filter_quality", input_file |-> InputCsv, output_dir |-> "out",
              min_reads |-> min_reads, min_genes |-> 3, max_mt_percent |-> 2]
    IN Begin(c, FilterPlan(c).ops[1])

BeginSplit ==
  LET c == [tool |-> "split_by_region", input_file |-> SplitInput, output_dir |-> "out",
            regions |-> <<>>, coordinate_file |-> "None"]
  IN Begin(c, SplitPlan(c).ops[1])

BeginMerge ==
  \E tile_files \in {<<Tile1>>, <<Tile1, Tile2>>}, overlap_resolution \in Range(Policies) :
    LET c == [tool |-> "merge_tiles", tile_files |-> tile_files, output_file |-> MergedCsv,
              overlap_resolution |-> overlap_resolution]
    IN Begin(c, MergePlan(c).ops[1])

BeginAlign ==
  LET c == [tool |-> "align_spatial_data", fastq_r1 |-> FastqR1, fastq_r2 |-> FastqR2,
            reference_genome |-> "ref/star_index", output_dir |-> "aligned_out", threads |-> 8]
  IN Begin(c, Ev("run", ReadFilesCommand(FastqR1)))

NextBlocking ==
  \/ BeginFilter
  \/ BeginSplit
  \/ BeginMerge
  \/ BeginAlign
  \/ FileOperationReturns
  \/ ProcessExits
  \/ DeadlineExpires

\* the deadline of subprocess.run is the only wait the code bounds, so it
\* is the only step that is sure to happen
SpecBlocking == InitBlocking /\ [][NextBlocking]_vars /\ WF_vars(DeadlineExpires)

(* ======================= claims on filter_quality ====================== *)

FilterDone == call.tool = "filter_quality"

FilterWrote == FilterDone /\ result.status = "ok" /\ result.mode = "real"

\* the value of a text field, whatever its numeric formatting
FieldVal(fld) ==
  IF fld.k \in {"int", "float"} THEN <<"num", fld.n, fld.d, "">>
  ELSE IF fld.k = "empty" THEN <<"nan", 0, 1, "">>
  ELSE <<"str", 0, 1, fld.s>>

SameRow(header, r1, r2) == \A c \in Range(header) : FieldVal(r1[c]) = FieldVal(r2[c])

FieldNumGE(fld, thr) == fld.k \in {"int", "float"} /\ fld.n >= thr * fld.d

FieldNumLE(fld, thr) == fld.k \in {"int", "float"} /\ fld.n <= thr * fld.d

\* the row passes the three thresholds of the call
RowPasses(r) ==
  /\ FieldNumGE(r["n_reads"], call.min_reads)
  /\ FieldNumGE(r["n_genes"], call.min_genes)
  /\ FieldNumLE(r["mt_percent"], call.max_mt_percent)

\* C1: the table written by filter_quality is exactly the input rows that
\* satisfy n_reads >= min_reads, n_genes >= min_genes and
\* mt_percent <= max_mt_percent, in their original relative order, and
\* barcodes_after is the number of those rows.
ThmC1 ==
  FilterWrote =>
    LET inp == fs[call.input_file]
        out == fs[result.output_file]
        keep == {i \in 1..Len(inp.rows) : RowPasses(inp.rows[i])}
        \* the input index of the j-th kept row
        Nth(j) == CHOOSE i \in keep : Cardinality({m \in keep : m < i}) = j - 1
    IN /\ out.header = inp.header
       /\ Len(out.rows) = Cardinality(keep)
       /\ \A j \in 1..Len(out.rows) : SameRow(inp.header, out.rows[j], inp.rows[Nth(j)])
       /\ result.barcodes_after = Cardinality(keep)

\* a two-row input of which the first row is dropped and the second kept
WitC1 ==
  /\ FilterWrote
  /\ Len(fs[call.input_file].rows) = 2
  /\ ~RowPasses(fs[call.input_file].rows[1])
  /\ RowPasses(fs[call.input_file].rows[2])
  /\ Len(fs[result.output_file].rows) = 1

SameThresholds(c1, c2) ==
  /\ c1.min_reads = c2.min_reads
  /\ c1.min_genes = c2.min_genes
  /\ c1.max_mt_percent = c2.max_mt_percent

\* a filter_quality call on the file the previous call wrote, with the
\* previous call's thresholds
RefilterStep ==
  /\ FilterWrote
  /\ ncalls' = ncalls + 1
  /\ call'.tool = "filter_quality"
  /\ call'.input_file = result.output_file
  /\ SameThresholds(call', call)

\* C2: filtering the output of filter_quality again with the same
\* thresholds succeeds, writes a table identical to that output and reports
\* barcodes_after = barcodes_before.
ThmC2 ==
  [][RefilterStep =>
       /\ result'.status = "ok"
       /\ fs'[result'.output_file] = fs[result.output_file]
       /\ result'.barcodes_after = result'.barcodes_before]_vars

\* a non-empty filtered file, itself shorter than the original input, was
\* filtered again and came back unchanged
WitC2 ==
  /\ FilterWrote
  /\ call.input_file = FilterOutputPath(InputCsv, "out")
  /\ Len(fs[call.input_file].rows) = 1
  /\ Len(fs[InputCsv].rows) = 2
  /\ fs[result.output_file] = fs[call.input_file]
  /\ result.barcodes_after = 1
  /\ \E c \in Range(fs[call.input_file].header) : fs[call.input_file].rows[1][c].k = "float"

\* C3: the reported filtering_rate is a well-defined number in [0,1], and
\* it is 0 when the table that was read is empty.
ThmC3 ==
  (FilterDone /\ result.status = "ok") =>
    /\ result.filtering_rate.d > 0
    /\ RatLE(Zero, result.filtering_rate)
    /\ RatLE(result.filtering_rate, [n |-> 1, d |-> 1])
    /\ (result.mode = "real" /\ Len(fs[call.input_file].rows) = 0)
         => result.filtering_rate = Zero

\* an empty table was filtered, and so was a table that lost a row
WitC3 ==
  /\ FilterWrote
  /\ Len(fs[call.input_file].rows) = 0
  /\ result.barcodes_before = 0

InvalidQC(c) ==
  c.min_reads < 0 \/ c.min_genes < 0 \/ c.max_mt_percent < 0 \/ c.max_mt_percent > 100

\* C4: a filter_quality call with min_reads < 0, min_genes < 0 or
\* max_mt_percent outside [0,100] fails with the invalid-parameter error
\* before any I/O (no mkdir, no existence probe, no read, no write),
\* whatever the state of the input path.
CexC4 ==
  (FilterDone /\ InvalidQC(call)) =>
    /\ result.status = "error"
    /\ result.exc = "ValueError"
    /\ io = <<>>

(* ========================= claims on merge_tiles ======================= *)

MergeDone == call.tool = "merge_tiles"

MergeWrote == MergeDone /\ result.status = "ok" /\ result.mode = "real"

\* the tiles whose rows the call concatenates, in list order
Loaded == SelectSeq(call.tile_files, LAMBDA p : p.suffix = "csv")

RECURSIVE OccOf(_)
\* the rows of the tiles in concatenation order, each with its header
OccOf(paths) ==
  IF paths = <<>> THEN <<>>
  ELSE LET f == fs[Head(paths)]
       IN [i \in 1..Len(f.rows) |-> [hdr |-> f.header, row |-> f.rows[i]]] \o OccOf(Tail(paths))

Occ == OccOf(Loaded)

NanVal == <<"nan", 0, 1, "">>

\* the value of attribute c in an occurrence; missing when the tile has no
\* such column
OccVal(o, c) == IF c \in Range(o.hdr) THEN FieldVal(o.row[c]) ELSE NanVal

Barcodes == {OccVal(Occ[i], "barcode") : i \in 1..Len(Occ)} \ {NanVal}

TileColumns == UNION {Range(fs[Loaded[i]].header) : i \in 1..Len(Loaded)}

Out == fs[result.output_file]

OutRowsFor(b) == {j \in 1..Len(Out.rows) : FieldVal(Out.rows[j]["barcode"]) = b}

OccsOf(b) == {i \in 1..Len(Occ) : OccVal(Occ[i], "barcode") = b}

FirstPos(b) == CHOOSE i \in OccsOf(b) : \A j \in OccsOf(b) : i <= j

\* the occurrences of barcode b in which attribute c is a number
Present(b, c) == {i \in OccsOf(b) : OccVal(Occ[i], c)[1] = "num"}

\* C5: under policy 'first' the output holds exactly one row per barcode,
\* every attribute of it equal to the barcode's earliest occurrence in the
\* concatenation, and the output rows are in concatenation order.
ThmC5 ==
  (MergeWrote /\ call.overlap_resolution = "first" /\ "barcode" \in Range(Out.header)) =>
    /\ Range(Out.header) = TileColumns
    /\ \A b \in Barcodes :
         /\ Cardinality(OutRowsFor(b)) = 1
         /\ \A j \in OutRowsFor(b) : \A c \in Range(Out.header) :
              FieldVal(Out.rows[j][c]) = OccVal(Occ[FirstPos(b)], c)
    /\ \A j, k \in 1..Len(Out.rows) :
         j < k => FirstPos(FieldVal(Out.rows[j]["barcode"])) < FirstPos(FieldVal(Out.rows[k]["barcode"]))

\* tiles [A, B] share a barcode whose attributes differ: the output row is
\* A's, not B's
WitC5 ==
  /\ MergeWrote
  /\ call.overlap_resolution = "first"
  /\ call.tile_files = <<Tile1, Tile2>>
  /\ \E b \in Barcodes : \E i, k \in OccsOf(b) :
       /\ i < k
       /\ OccVal(Occ[i], "n_reads") # OccVal(Occ[k], "n_reads")
       /\ \E j \in OutRowsFor(b) : FieldVal(Out.rows[j]["n_reads"]) = OccVal(Occ[i], "n_reads")
  /\ Len(Out.rows) >= 2

RECURSIVE ProdDen(_, _)
ProdDen(S, c) ==
  IF S = {} THEN 1
  ELSE LET i == CHOOSE i \in S : TRUE IN OccVal(Occ[i], c)[3] * ProdDen(S \ {i}, c)

RECURSIVE SumOver(_, _, _)
\* the sum over S of attribute c, as a multiple of 1/D
SumOver(S, c, D) ==
  IF S = {} THEN 0
  ELSE LET i == CHOOSE i \in S : TRUE
       IN OccVal(Occ[i], c)[2] * (D \div OccVal(Occ[i], c)[3]) + SumOver(S \ {i}, c, D)

\* v is the arithmetic mean of attribute c over the occurrences in S
IsMeanOf(v, S, c) ==
  LET D == ProdDen(S, c)
  IN v[1] = "num" /\ v[2] * D * Cardinality(S) = SumOver(S, c, D) * v[3]

\* C6: under policy 'average' every numeric attribute of every barcode is
\* the arithmetic mean over exactly the occurrences of the barcode in which
\* the attribute is present; a missing value is left out, not counted as 0.
ThmC6 ==
  (MergeWrote /\ call.overlap_resolution = "average" /\ "barcode" \in Range(Out.header)) =>
    /\ Range(Out.header) = TileColumns
    /\ \A b \in Barcodes :
         /\ Cardinality(OutRowsFor(b)) = 1
         /\ \A j \in OutRowsFor(b) : \A c \in Range(Out.header) \ {"barcode"} :
              IF Present(b, c) = {} THEN FieldVal(Out.rows[j][c]) = NanVal
              ELSE IsMeanOf(FieldVal(Out.rows[j][c]), Present(b, c), c)

\* two single-row tiles with read counts 1 and 3 for one barcode give 2
WitC6 ==
  /\ MergeWrote
  /\ call.overlap_resolution = "average"
  /\ call.tile_files = <<Tile1, Tile2>>
  /\ Len(fs[Tile1].rows) = 1 /\ Len(fs[Tile2].rows) = 1
  /\ OccVal(Occ[1], "barcode") = OccVal(Occ[2], "barcode")
  /\ OccVal(Occ[1], "n_reads") = <<"num", 1, 1, "">>
  /\ OccVal(Occ[2], "n_reads") = <<"num", 3, 1, "">>
  /\ Len(Out.rows) = 1
  /\ FieldVal(Out.rows[1]["n_reads"]) = <<"num", 2, 1, "">>

ValLE(a, b) == a[2] * b[3] <= b[2] * a[3]

\* C7: under policy 'max' every numeric attribute of every barcode is,
\* independently of the other attributes, the maximum over the occurrences
\* of the barcode.
ThmC7 ==
  (MergeWrote /\ call.overlap_resolution = "max" /\ "barcode" \in Range(Out.header)) =>
    /\ Range(Out.header) = TileColumns
    /\ \A b \in Barcodes :
         /\ Cardinality(OutRowsFor(b)) = 1
         /\ \A j \in OutRowsFor(b) : \A c \in Range(Out.header) \ {"barcode"} :
              LET v == FieldVal(Out.rows[j][c])
              IN IF Present(b, c) = {} THEN v = NanVal
                 ELSE /\ \E i \in Present(b, c) : OccVal(Occ[i], c) = v
                      /\ \A i \in Present(b, c) : ValLE(OccVal(Occ[i], c), v)

\* the output row of a barcode equals none of its occurrences
WitC7 ==
  /\ MergeWrote
  /\ call.overlap_resolution = "max"
  /\ \E b \in Barcodes : \E j \in OutRowsFor(b) :
       \A i \in OccsOf(b) : \E c \in Range(Out.header) : OccVal(Occ[i], c) # FieldVal(Out.rows[j][c])
\* the rows of a table as a set of column -> value maps
RowVals(file) ==
  {[c \in Range(file.header) |-> FieldVal(file.rows[j][c])] : j \in 1..Len(file.rows)}

\* two tables hold the same resolved values: the same columns and the same
\* rows, whatever the order of columns and rows
SameResolved(f1, f2) ==
  /\ Range(f1.header) = Range(f2.header)
  /\ Len(f1.rows) = Len(f2.rows)
  /\ RowVals(f1) = RowVals(f2)

\* the re-orderings of a tile list
Reorderings(tiles) ==
  {[i \in 1..Len(tiles) |-> tiles[p[i]]] : p \in Permutations(1..Len(tiles))}

\* C8: under 'average' and 'max', merging any re-ordering of the tile list
\* succeeds with the same resolved values for every barcode as the merge
\* of the list itself ('first' is order-dependent, see WitC8).
ThmC8 ==
  (MergeWrote /\ call.overlap_resolution \in {"average", "max"}) =>
    \A perm \in Reorderings(call.tile_files) :
      LET m == MergeFrames(fs, perm, call.overlap_resolution)
      IN m.err = "" /\ SameResolved(to_csv(m.df), Out)

\* two tiles observe one barcode with different read counts and are merged
\* under 'average'; under 'first' the same two tiles give other values once
\* their order is swapped
WitC8 ==
  /\ MergeWrote
  /\ call.overlap_resolution = "average"
  /\ call.tile_files = <<Tile1, Tile2>>
  /\ \E b \in Barcodes : \E i, k \in OccsOf(b) : OccVal(Occ[i], "n_reads") # OccVal(Occ[k], "n_reads")
  /\ ~SameResolved(to_csv(MergeFrames(fs, <<Tile1, Tile2>>, "first").df),
                   to_csv(MergeFrames(fs, <<Tile2, Tile1>>, "first").df))

RECURSIVE SumSizes(_)
\* the number of rows of all the tiles together
SumSizes(paths) ==
  IF paths = <<>> THEN 0 ELSE Len(fs[Head(paths)].rows) + SumSizes(Tail(paths))

\* C9: for every tile list and policy, overlapping_barcodes is the sum of
\* the sizes of all the tiles minus total_barcodes, and is never negative.
CexC9 ==
  MergeWrote =>
    /\ result.overlapping_barcodes = SumSizes(Loaded) - result.total_barcodes
    /\ result.overlapping_barcodes >= 0

BarcodesIn(file) ==
  IF "barcode" \in Range(file.header)
  THEN {FieldVal(file.rows[j]["barcode"]) : j \in 1..Len(file.rows)} \ {NanVal}
  ELSE {}

\* every tile of the list holds one row, and all hold the same barcode
SameSingleBarcode ==
  /\ Len(Loaded) >= 1
  /\ \A i \in 1..Len(Loaded) :
       /\ Len(fs[Loaded[i]].rows) = 1
       /\ Cardinality(BarcodesIn(fs[Loaded[i]])) = 1
       /\ BarcodesIn(fs[Loaded[i]]) = BarcodesIn(fs[Loaded[1]])

InvalidMerge(c) == c.tile_files = <<>> \/ c.overlap_resolution \notin {"first", "average", "max"}

IoOps(op) == {i \in 1..Len(io) : io[i].op = op}

SplitDone == call.tool = "split_by_region"

SplitWrote == SplitDone /\ result.status = "ok" /\ result.mode = "real"

\* the files a successful call reports
RegionFilesOf(res) == {res.regions[i].file : i \in 1..Len(res.regions)}

\* a split_by_region call that repeats the previous, successful one on the
\* same input table, which that call left as it was
ResplitStep ==
  /\ SplitWrote
  /\ ncalls' = ncalls + 1
  /\ call'.tool = "split_by_region"
  /\ call'.input_file = call.input_file
  /\ call'.output_dir = call.output_dir
  /\ call'.regions = call.regions
  /\ call.input_file \notin RegionFilesOf(result)

\* C12: on a table without a region column, with or without an x_coord
\* column and with or without a list of region names, a second
\* split_by_region call on the identical input succeeds with the same
\* region of every barcode (the same region files) and the same per-region
\* counts as the first.
CexC12 ==
  [][(ResplitStep /\ "region" \notin Range(fs[call.input_file].header)) =>
       /\ result'.status = "ok"
       /\ result'.regions = result.regions
       /\ \A f \in RegionFilesOf(result) : fs'[f] = fs[f]]_vars

\* a split_by_region call that returns normally, on a table that has a
\* region column
LabelledStep ==
  /\ ncalls' = ncalls + 1
  /\ call'.tool = "split_by_region"
  /\ result'.status = "ok" /\ result'.mode = "real"
  /\ "region" \in Range(fs[call'.input_file].header)

\* a split_by_region call on one of the files reported by the previous call,
\* itself a successful call on a table that has a region column
ResegmentStep ==
  /\ SplitWrote
  /\ call.input_file \notin RegionFilesOf(result)
  /\ "region" \in Range(fs[call.input_file].header)
  /\ ncalls' = ncalls + 1
  /\ call'.tool = "split_by_region"
  /\ call'.input_file \in RegionFilesOf(result)

\* C13: on a table that has a region column, whatever the regions and
\* coordinate_file arguments, every record split_by_region writes is an
\* input record with its region unchanged; and splitting any file the call
\* reported again succeeds and yields that file's records, all in the region
\* they had.
CexC13 ==
  [][/\ LabelledStep =>
          \A f \in RegionFilesOf(result') :
            /\ fs'[f].header = fs[call'.input_file].header
            /\ \A j \in 1..Len(fs'[f].rows) : \E k \in 1..Len(fs[call'.input_file].rows) :
                 SameRow(fs'[f].header, fs'[f].rows[j], fs[call'.input_file].rows[k])
     /\ ResegmentStep =>
          /\ result'.status = "ok"
          /\ \A f \in RegionFilesOf(result') :
               /\ Len(fs'[f].rows) = Len(fs[call'.input_file].rows)
               /\ \A j \in 1..Len(fs'[f].rows) :
                    SameRow(fs'[f].header, fs'[f].rows[j], fs[call'.input_file].rows[j])]_vars

\* the reported region files that hold a record with the barcode of r
HoldersOf(r) ==
  {i \in 1..Len(result.regions) :
     \E j \in 1..Len(fs[result.regions[i].file].rows) :
       FieldVal(fs[result.regions[i].file].rows[j]["barcode"]) = FieldVal(r["barcode"])}

\* C14: after a successful split_by_region, in every mode of assignment,
\* each record of the input table is in exactly one of the reported region
\* files, and the reported barcode counts sum to the size of the input
\* table (the input table is read here from a file the call did not write).
CexC14 ==
  (SplitWrote /\ call.input_file \notin RegionFilesOf(result)) =>
    /\ SumCounts(result.regions) = Len(fs[call.input_file].rows)
    /\ \A k \in 1..Len(fs[call.input_file].rows) :
         Cardinality(HoldersOf(fs[call.input_file].rows[k])) = 1

(* ====================== claims on every tool's calls =================== *)

\* one tool call is made in the step
CallStep == ncalls' = ncalls + 1

\* C15: a call made with the dry-run switch on returns its placeholder
\* result without creating a directory and without reading or writing a
\* file: directories and files are after the call what they were before it.
CexC15 ==
  [][(CallStep /\ DRY_RUN /\ result'.status = "ok") =>
       /\ result'.mode = "dry_run"
       /\ dirs' = dirs
       /\ fs' = fs
       /\ \A i \in 1..Len(io') : io'[i].op \notin {"mkdir", "read", "write"}]_vars

\* C16: a call that ends in an error has created or modified no file; a
\* split_by_region call that fails while it writes the regions leaves no
\* region file behind.
CexC16 ==
  [][(CallStep /\ result'.status = "error") =>
       /\ fs' = fs
       /\ \A i \in 1..Len(io') : io'[i].op # "write"]_vars

QualityColumns == {"n_reads", "n_genes", "mt_percent"}

\* filter_quality has read a table that lacks a quality column: the call
\* ended in an error and wrote nothing
MissingColumnFails ==
  (/\ FilterDone
   /\ ~DRY_RUN
   /\ Exists(call.input_file)
   /\ ~InvalidQC(call)
   /\ ~(QualityColumns \subseteq Range(fs[call.input_file].header))) =>
    /\ result.status = "error"
    /\ IoOps("write") = {}

\* split_by_region is repeated, without a list of region names, on a table
\* that has neither a region nor an x_coord column: the second call gives
\* every region the records the first gave it
NoCoordinateSameSplit ==
  (/\ ResplitStep
   /\ call.regions = <<>>
   /\ "region" \notin Range(fs[call.input_file].header)
   /\ "x_coord" \notin Range(fs[call.input_file].header)) =>
    /\ result'.status = "ok"
    /\ result'.regions = result.regions
    /\ \A f \in RegionFilesOf(result) : fs'[f] = fs[f]

\* C17: filter_quality on a table lacking n_reads, n_genes or mt_percent
\* fails with an error and writes no output, whatever the thresholds; and
\* the grid fallback of split_by_region on a table lacking x_coord fails or
\* orders the records by a key fixed by the input, so that repeating the
\* call changes nothing.
CexC17 == []MissingColumnFails /\ [][NoCoordinateSameSplit]_vars

\* a quality field that is missing or is not a number
Malformed(fld) == fld.k \notin {"int", "float"}

\* C18: when a row of the table filter_quality reads has a quality value
\* that is missing or not a number, the call fails instead of returning a
\* result without that row.
CexC18 ==
  (/\ FilterDone
   /\ ~DRY_RUN
   /\ Exists(call.input_file)
   /\ call.input_file.suffix = "csv"
   /\ \E i \in 1..Len(fs[call.input_file].rows) :
        \E c \in QualityColumns \cap Range(fs[call.input_file].header) :
          Malformed(fs[call.input_file].rows[i][c])) =>
    result.status = "error"

(* ====================== claims on align_spatial_data =================== *)

AlignDone == call.tool = "align_spatial_data"

\* the aligner was started by the call
AlignerRan == \E i \in 1..Len(io) : io[i].op = "run"

\* the error of a call whose FASTQ R1 does not exist
MissingFastqError == Err("IOError", "FASTQ R1 not found", "")

\* C19: when the aligner was run and exited with a non-zero status, the
\* caller gets subprocess.CalledProcessError, an error of another type than
\* the one for a missing input and the one for the expired deadline, and no
\* alignment statistics.
CexC19 ==
  (AlignDone /\ AlignerRan /\ result.status = "error" /\ result.cause = "CalledProcessError") =>
    /\ result.exc = "CalledProcessError"
    /\ result.exc # AlignFailure("TimeoutExpired").exc
    /\ result.exc # MissingFastqError.exc

(* ===================== claims on the tools' input files ================ *)

\* the input files a call names
InputsOf(c) ==
  IF c.tool = "merge_tiles" THEN Range(c.tile_files)
  ELSE IF c.tool = "align_spatial_data" THEN {c.fastq_r1, c.fastq_r2}
  ELSE {c.input_file}

\* C20: a tool call leaves every input file it was given with the contents
\* the file had before the call, wherever its outputs are directed.
CexC20 ==
  [][CallStep =>
       \A p \in InputsOf(call') \cap DOMAIN fs : p \in DOMAIN fs' /\ fs'[p] = fs[p]]_vars

(* ==================== claims on requests served together =============== *)

\* the files a successful request has written
OutputsOf(c, res) ==
  IF res.status # "ok" \/ res.mode # "real" THEN {}
  ELSE IF c.tool = "split_by_region" THEN RegionFilesOf(res)
  ELSE IF c.tool \in {"filter_quality", "merge_tiles"} THEN {res.output_file}
  ELSE {}

\* C21: of two requests served one after the other (a tool call holds the
\* event loop until it returns, so every interleaving of two requests is
\* one of the two orders), neither overwrites the other's state: the files
\* the first request wrote still hold after the second what the first
\* wrote, as they would had the first run alone.
CexC21 ==
  [][CallStep =>
       \A p \in OutputsOf(call, result) : p \in DOMAIN fs' /\ fs'[p] = fs[p]]_vars

(* ================= claims on the tools' blocking operations ============ *)

\* C22: no call waits for ever on a file read, a file write or the aligner:
\* a call whose result is pending eventually returns, with its result or
\* with an error.
CexC22 == (result.status = "pending") ~> (result.status # "pending")

(* ================== claims on split_by_region's grid =================== *)

\* a successful split_by_region call without a list of region names on a
\* table that has an x_coord column and no region column
GridSplit ==
  /\ SplitWrote
  /\ call.regions = <<>>
  /\ "x_coord" \in Range(fs[call.input_file].header)
  /\ "region" \notin Range(fs[call.input_file].header)

GridInput == fs[call.input_file].rows

\* the records of the input that have an x coordinate
Located == {k \in 1..Len(GridInput) : GridInput[k]["x_coord"].k \in {"int", "float"}}

XOf(k) == GridInput[k]["x_coord"]

XLE(j, k) == XOf(j).n * XOf(k).d <= XOf(k).n * XOf(j).d

MinX == CHOOSE k \in Located : \A j \in Located : XLE(k, j)

MaxX == CHOOSE k \in Located : \A j \in Located : XLE(j, k)

BinNames == <<"region_0", "region_1", "region_2", "region_3">>

\* the bins whose reported file holds record k, as indices 0..3
BinsOf(k) ==
  {i \in 0..3 : \E r \in HoldersOf(GridInput[k]) : result.regions[r].name = BinNames[i + 1]}

\* x of record k lies in the i-th of four equal parts of [min x, max x],
\* each part closed on the right and the lowest one holding min x
InEqualPart(k, i) ==
  LET off == XOf(k).n * XOf(MinX).d - XOf(MinX).n * XOf(k).d
      width == XOf(MaxX).n * XOf(MinX).d - XOf(MinX).n * XOf(MaxX).d
  IN /\ 4 * off * XOf(MaxX).d <= (i + 1) * width * XOf(k).d
     /\ i = 0 \/ 4 * off * XOf(MaxX).d > i * width * XOf(k).d

\* C23: in grid mode the four bins are equal parts of [min x, max x] named
\* region_0 to region_3 in ascending order: every record with an x
\* coordinate is in exactly one bin, the bin index never decreases with x
\* and, when the least and the greatest x differ, the record of least x is
\* in region_0, the record of greatest x is in region_3 and each record
\* lies in the equal part its bin stands for; every reported region holds
\* a record.
CexC23 ==
  (GridSplit /\ Located # {}) =>
    /\ \A k \in Located : Cardinality(BinsOf(k)) = 1
    /\ \A j, k \in Located : XLE(j, k) => \A a \in BinsOf(j), b \in BinsOf(k) : a <= b
    /\ ~XLE(MaxX, MinX) =>
         /\ BinsOf(MinX) = {0}
         /\ BinsOf(MaxX) = {3}
         /\ \A k \in Located : \A i \in BinsOf(k) : InEqualPart(k, i)
    /\ \A r \in 1..Len(result.regions) : result.regions[r].barcode_count > 0

(* ================= claims on the tiles merge_tiles loads ================ *)

\* C24: a successful merge_tiles call concatenates every file of tile_files
\* whatever its suffix, and tiles_merged is the number of tiles whose rows
\* were concatenated.
CexC24 ==
  MergeWrote =>
    /\ Loaded = call.tile_files
    /\ result.tiles_merged = Len(Loaded)

\* the barcodes of all the tiles of the list
AllBarcodes ==
  UNION {BarcodesIn(fs[call.tile_files[i]]) : i \in 1..Len(call.tile_files)}

\* C25: after a successful merge_tiles under any policy the output has a
\* barcode column, every barcode of it is in exactly one output row, the
\* barcodes of the output are those of all the input tiles together, and
\* total_barcodes is their number.
CexC25 ==
  MergeWrote =>
    /\ "barcode" \in Range(Out.header)
    /\ \A j \in 1..Len(Out.rows) : Cardinality(OutRowsFor(FieldVal(Out.rows[j]["barcode"]))) = 1
    /\ BarcodesIn(Out) = AllBarcodes
    /\ result.total_barcodes = Cardinality(AllBarcodes)

====
